---- MODULE Spec2Model ----
(***************************************************************************)
(* A model of the CreateStore class of react-map-store (src/src/index.ts): *)
(* the keyed value store with path-addressed reads and writes, the         *)
(* subscriber registries, the notification fan-out and the Redux DevTools  *)
(* adapter.                                                                *)
(*                                                                         *)
(* JavaScript values live in a heap of objects so that aliasing (two       *)
(* references to one object) is visible; strings that the code            *)
(* concatenates and compares (path identities) are sequences of            *)
(* characters; serialized state is a tree, produced by JSONstringify and   *)
(* turned back into fresh heap objects by JSONparse.                       *)
(*                                                                         *)
(* React's startTransition runs its callback synchronously, so every       *)
(* operation below includes the delivery of the callbacks it triggers.     *)
(***************************************************************************)
EXTENDS Integers, Sequences, FiniteSets, TLC

\* Number of heap cells available for JavaScript objects.
MaxObjs == 5
\* Largest number an updater may produce.
MaxNum == 2
\* The most messages the DevTools sink is sent in a behaviour.
MaxSent == 3

VARIABLES
  heap,                      \* object id -> [kind, f]: the JavaScript heap
  map,                       \* this.map: top-level key -> value
  initialState,              \* this.initialState
  fallbackValue,             \* this.fallbackValue
  type,                      \* this.type: "map" or "object"
  nestedFallbackValueCache,  \* this.nestedFallbackValueCache: identity -> value
  itemSubscribers,           \* this.itemSubscribers: identity -> set of callbacks
  itemSubscriberPaths,       \* this.itemSubscriberPaths: set of identities
  sizeSubscribers,           \* this.sizeSubscribers
  keysSubscribers,           \* this.keysSubscribers
  devtools,                  \* whether this.devtools is connected
  sent,                      \* messages pushed to the sink by the last operation
  fired,                     \* callback -> times invoked by the last operation
  threw,                     \* whether the last operation threw
  ret,                       \* what the last get returned
  op,                        \* the last operation and its arguments
  held,                      \* a reference the caller took with get and kept
  seen,                      \* the store states the callbacks of the last operation found
  keysHook,                  \* the refs of one useKeys: keysRef, sizeRef, keysStringRef
  onCall,                    \* callback -> the unsubscriptions it makes when invoked
  late,                      \* callbacks the last operation invoked after a callback
                             \* of the same batch had unsubscribed them
  construction,              \* history: the initial state as written at construction
  dropped                    \* history: callbacks a notifying setMap unregistered
                             \* and that did not subscribe again

vars == <<heap, map, initialState, fallbackValue, type, nestedFallbackValueCache,
          itemSubscribers, itemSubscriberPaths, sizeSubscribers, keysSubscribers,
          devtools, sent, fired, threw, ret, op, held, seen, keysHook,
          onCall, late, construction, dropped>>

----------------------------------------------------------------------------
(* JavaScript values *)

UNDEF == [t |-> "undefined"]
NULL == [t |-> "null"]
Num(n) == [t |-> "number", n |-> n]
Str(s) == [t |-> "string", s |-> s]
Ref(i) == [t |-> "ref", id |-> i]
NaN == [t |-> "NaN"]
\* A function value; the one updater of the model is n => n + 1.
Fn(name) == [t |-> "function", fn |-> name]

IsRef(v) == v.t = "ref"
IsNullish(v) == v.t \in {"undefined", "null"}

EmptyFn == [x \in {} |-> UNDEF]

\* A tree: a value written out in full, as an object literal or a JSON text
\* describes it.
Obj(f) == [t |-> "tree", kind |-> "object", f |-> f]
Arr(f) == [t |-> "tree", kind |-> "array", f |-> f]

Cells == 0 .. MaxObjs
ObjIds == 1 .. MaxObjs
FREE == [kind |-> "free", f |-> EmptyFn]

\* The callbacks a consumer may register: f and g at paths, s as a size
\* observer, k as a key-set observer.
PathCallbacks == {"f", "g"}
Callbacks == PathCallbacks \cup {"s", "k"}

Min(S) == CHOOSE x \in S : \A y \in S : x <= y
Max(S) == CHOOSE x \in S : \A y \in S : x >= y

RECURSIVE SetToSeq(_)
SetToSeq(S) ==
  IF S = {} THEN <<>>
  ELSE LET x == CHOOSE y \in S : TRUE IN <<x>> \o SetToSeq(S \ {x})

\* Array index named by a property key, or -1, and the key of an index.
Digits ==
  <<"0", "1", "2", "3", "4", "5", "6", "7", "8", "9",
    "10", "11", "12", "13", "14", "15">>
IndexOf(p) ==
  IF \E i \in 1 .. Len(Digits) : Digits[i] = p
    THEN (CHOOSE i \in 1 .. Len(Digits) : Digits[i] = p) - 1
    ELSE -1
IndexKey(i) == Digits[i + 1]

\* v[p] for a value v that is neither undefined nor null.
ReadProp(h, v, p) ==
  IF IsRef(v) THEN (IF p \in DOMAIN h[v.id].f THEN h[v.id].f[p] ELSE UNDEF)
  ELSE IF v.t = "string" /\ IndexOf(p) >= 0 /\ IndexOf(p) < Len(v.s)
    THEN Str(<<v.s[IndexOf(p) + 1]>>)
  ELSE UNDEF

\* Own enumerable properties, as object spread and Object.entries see them.
OwnProps(h, v) ==
  IF IsRef(v) THEN h[v.id].f
  ELSE IF v.t = "string"
    THEN [p \in {IndexKey(i - 1) : i \in 1 .. Len(v.s)} |-> Str(<<v.s[IndexOf(p) + 1]>>)]
  ELSE EmptyFn

\* { ...a, ...b }
Merge(f, g) ==
  [p \in DOMAIN f \cup DOMAIN g |-> IF p \in DOMAIN g THEN g[p] ELSE f[p]]

----------------------------------------------------------------------------
(* The state an operation works on *)

St ==
  [heap |-> heap, map |-> map, cache |-> nestedFallbackValueCache,
   itemSubscribers |-> itemSubscribers, itemSubscriberPaths |-> itemSubscriberPaths,
   sizeSubscribers |-> sizeSubscribers, keysSubscribers |-> keysSubscribers,
   sent |-> <<>>, fired |-> [c \in Callbacks |-> 0], late |-> {}, seen |-> {},
   threw |-> FALSE,
   oom |-> FALSE, new |-> UNDEF, ret |-> UNDEF, held |-> held]

\* The callbacks registered at some path.
Registered(s) == UNION {s.itemSubscribers[x] : x \in DOMAIN s.itemSubscribers}

Throw(s) == [s EXCEPT !.threw = TRUE]

\* A new object: the lowest free cell.
Alloc(s, kind, f) ==
  LET free == {i \in ObjIds : s.heap[i].kind = "free"} IN
  IF free = {} THEN [s EXCEPT !.oom = TRUE, !.new = Ref(0)]
  ELSE [s EXCEPT !.heap[Min(free)] = [kind |-> kind, f |-> f],
                 !.new = Ref(Min(free))]

\* target[p] = v in strict-mode code: a TypeError unless target is an object.
AssignProp(s, target, p, v) ==
  IF IsRef(target)
    THEN [s EXCEPT !.heap[target.id].f =
            [q \in DOMAIN @ \cup {p} |-> IF q = p THEN v ELSE @[q]]]
    ELSE Throw(s)

\* The object literal or parsed text `tree`, built in the heap; the value is
\* left in .new.
RECURSIVE Build(_, _)
RECURSIVE BuildProps(_, _, _, _)
Build(s, tree) ==
  IF tree.t # "tree" THEN [s EXCEPT !.new = tree]
  ELSE LET filled == BuildProps(s, tree.f, SetToSeq(DOMAIN tree.f), EmptyFn)
       IN Alloc(filled.s, tree.kind, filled.f)
BuildProps(s, tf, props, acc) ==
  IF props = <<>> THEN [s |-> s, f |-> acc]
  ELSE LET b == Build(s, tf[Head(props)])
       IN BuildProps(b, tf, Tail(props),
            [q \in DOMAIN acc \cup {Head(props)} |->
               IF q = Head(props) THEN b.new ELSE acc[q]])

\* The tree a value denotes.
RECURSIVE DeepRead(_, _)
DeepRead(h, v) ==
  IF ~IsRef(v) THEN v
  ELSE [t |-> "tree", kind |-> h[v.id].kind,
        f |-> [p \in DOMAIN h[v.id].f |-> DeepRead(h, h[v.id].f[p])]]

\* The tree of a whole mapping.
DeepMap(h, m) == [k \in DOMAIN m |-> DeepRead(h, m[k])]

\* Map.prototype.get / set / delete
MapGet(m, k) == IF k \in DOMAIN m THEN m[k] ELSE UNDEF
MapSet(m, k, v) == [x \in DOMAIN m \cup {k} |-> IF x = k THEN v ELSE m[x]]
MapDelete(m, k) == [x \in DOMAIN m \ {k} |-> m[x]]

----------------------------------------------------------------------------
(* Paths *)

\* A path argument: a bare key (bare = TRUE, one segment) or an array of
\* segments.
Key(k) == [bare |-> TRUE, segs |-> <<k>>]
Path(segs) == [bare |-> FALSE, segs |-> segs]

\* String(segment): the characters of a segment.  Segments are the empty
\* string or one character.
Chars(seg) == IF seg = "" THEN <<>> ELSE <<seg>>

RECURSIVE JoinTo(_, _)
JoinTo(segs, i) ==
  IF i = 0 THEN <<>>
  ELSE JoinTo(segs, i - 1) \o (IF i > 1 THEN <<".">> ELSE <<>>) \o Chars(segs[i])

pathToString(path) ==
  IF path.bare THEN Chars(path.segs[1]) ELSE JoinTo(path.segs, Len(path.segs))

pathToStringArray(path) == [i \in 1 .. Len(path.segs) |-> Chars(path.segs[i])]

startsWith(str, prefix) ==
  Len(str) >= Len(prefix) /\ SubSeq(str, 1, Len(prefix)) = prefix

----------------------------------------------------------------------------
(* Subscription registry *)

\* addSubscriber that takes a callback out when it is registered already.
addSubscriber_TogglesCallback(s, path, callback) ==
  LET pathString == pathToString(path)
      had == pathString \in DOMAIN s.itemSubscribers
      subs == IF had THEN s.itemSubscribers[pathString] ELSE {}
  IN [s EXCEPT
        !.itemSubscribers =
           [x \in DOMAIN @ \cup {pathString} |->
              IF x = pathString
                THEN (IF callback \in subs THEN subs \ {callback} ELSE subs \cup {callback})
                ELSE @[x]],
        !.itemSubscriberPaths = IF had THEN @ ELSE @ \cup {pathString}]

addSubscriber(s, path, callback) ==
  LET pathString == pathToString(path)
      had == pathString \in DOMAIN s.itemSubscribers
      subs == IF had THEN s.itemSubscribers[pathString] ELSE {}
  IN [s EXCEPT
        !.itemSubscribers =
           [x \in DOMAIN @ \cup {pathString} |->
              IF x = pathString THEN subs \cup {callback} ELSE @[x]],
        !.itemSubscriberPaths = IF had THEN @ ELSE @ \cup {pathString}]

\* removeSubscriber that leaves an identity with no callbacks in the registry.
removeSubscriber_KeepsEmptySet(s, path, callback) ==
  LET pathString == pathToString(path) IN
  IF pathString \notin DOMAIN s.itemSubscribers THEN s
  ELSE [s EXCEPT !.itemSubscribers[pathString] = @ \ {callback}]

removeSubscriber(s, path, callback) ==
  LET pathString == pathToString(path) IN
  IF pathString \notin DOMAIN s.itemSubscribers THEN s
  ELSE LET subscribers == s.itemSubscribers[pathString] \ {callback} IN
       IF subscribers = {}
         THEN [s EXCEPT
                 !.itemSubscribers = [x \in DOMAIN @ \ {pathString} |-> @[x]],
                 !.itemSubscriberPaths = @ \ {pathString}]
         ELSE [s EXCEPT !.itemSubscribers[pathString] = subscribers]

----------------------------------------------------------------------------
(* Notification *)

\* What a callback does when it is invoked, besides being counted: it takes
\* callbacks out of the registries (the functions subscribe returned).
NoBehaviour == [c \in Callbacks |-> {}]
UnsubscribeAt(path, callback) ==
  [registry |-> "itemSubscribers", path |-> path, callback |-> callback]
UnsubscribeFrom(registry, callback) ==
  [registry |-> registry, path |-> Path(<<>>), callback |-> callback]

RunOne(s, cmd) ==
  IF cmd.registry = "itemSubscribers" THEN removeSubscriber(s, cmd.path, cmd.callback)
  ELSE IF cmd.registry = "sizeSubscribers"
    THEN [s EXCEPT !.sizeSubscribers = @ \ {cmd.callback}]
  ELSE [s EXCEPT !.keysSubscribers = @ \ {cmd.callback}]

RECURSIVE RunAll(_, _)
RunAll(s, cmds) == IF cmds = <<>> THEN s ELSE RunAll(RunOne(s, Head(cmds)), Tail(cmds))

\* callback(); what it would get from the store, were it to read, is the
\* store's state at the call.
Run(s, c) == RunAll(s, SetToSeq(onCall[c]))

\* A Set is iterated in insertion order.  Callbacks are registered in the
\* order f, g, s, k wherever the order of a delivery can be observed.
DeliveryOrder == <<"f", "g", "s", "k">>
InOrder(callbacks) ==
  LET Member(c) == c \in callbacks IN SelectSeq(DeliveryOrder, Member)

\* Whether the iteration of the Set object `registry` still visits c: a
\* batch is a Set of its own, sizeSubscribers and keysSubscribers are the
\* registries themselves, and an element deleted before its turn is skipped.
Visits(s, registry, c) ==
  CASE registry = "sizeSubscribers" -> c \in s.sizeSubscribers
    [] registry = "keysSubscribers" -> c \in s.keysSubscribers
    [] OTHER -> TRUE

\* Whether c is still subscribed in the registry a delivery is made from.
Subscribed(s, registry, c) ==
  CASE registry = "sizeSubscribers" -> c \in s.sizeSubscribers
    [] registry = "keysSubscribers" -> c \in s.keysSubscribers
    [] OTHER -> c \in Registered(s)

\* for (const callback of callbacks) callback(), from the callbacks `todo`
\* on; `gone` are the callbacks unsubscribed since the loop began.
RECURSIVE Deliver(_, _, _, _)
Deliver(s, todo, registry, gone) ==
  IF todo = <<>> THEN s
  ELSE LET c == Head(todo)
           counted == [s EXCEPT !.fired[c] = @ + 1,
                                !.late = IF c \in gone THEN @ \cup {c} ELSE @,
                                !.seen = @ \cup {DeepMap(s.heap, s.map)}]
           next == IF Visits(s, registry, c) THEN Run(counted, c) ELSE s
           rest == {Tail(todo)[i] : i \in 1 .. Len(todo) - 1}
       IN Deliver(next, Tail(todo), registry,
                  gone \cup {d \in rest : ~Subscribed(next, registry, d)})

\* Each callback of the Set is called once, in the Set's order.
batchedUpdate(s, callbacks, registry) ==
  Deliver(s, InOrder(callbacks), registry, {})

syncKeys(s) == batchedUpdate(s, s.keysSubscribers, "keysSubscribers")

syncSize(s) == batchedUpdate(s, s.sizeSubscribers, "sizeSubscribers")

\* The callbacks registered at subPath, for a subPath of itemSubscriberPaths.
CallbacksAt(s, subPath) ==
  IF subPath \in DOMAIN s.itemSubscribers THEN s.itemSubscribers[subPath] ELSE {}

\* currentPath after the first i segments of the loop
\*   currentPath += (currentPath ? '.' : '') + segment
RECURSIVE CurrentPath(_, _)
CurrentPath(pathArray, i) ==
  IF i = 0 THEN <<>>
  ELSE LET before == CurrentPath(pathArray, i - 1) IN
       before \o (IF before # <<>> THEN <<".">> ELSE <<>>) \o pathArray[i]

\* The exact identity and its descendants.
MatchingBelow(s, pathString) ==
  UNION {CallbacksAt(s, subPath) :
           subPath \in {x \in s.itemSubscriberPaths :
                          x = pathString \/ startsWith(x, pathString \o <<".">>)}}

syncItem(s, key) ==
  LET fullPath == pathToString(key)
      pathArray == pathToStringArray(key)
      parents == UNION {CallbacksAt(s, CurrentPath(pathArray, i)) :
                          i \in 1 .. Len(pathArray)}
  IN batchedUpdate(s, MatchingBelow(s, fullPath) \cup parents, "batch")

syncItems(s, keys) ==
  batchedUpdate(s, UNION {MatchingBelow(s, pathToString(key)) : key \in keys}, "batch")

syncMap(s) ==
  batchedUpdate(s, UNION {s.itemSubscribers[x] : x \in DOMAIN s.itemSubscribers},
                "batch")

----------------------------------------------------------------------------
(* DevTools, outbound *)

sendToDevtools(s, action, skip) ==
  IF skip \/ ~devtools THEN s
  ELSE [s EXCEPT !.sent = Append(@, [type |-> action, state |-> s.map])]

----------------------------------------------------------------------------
(* Getters *)

\* JavaScript truthiness of a value.
Truthy(v) ==
  /\ ~IsNullish(v)
  /\ ~(v.t = "number" /\ v.n = 0)
  /\ ~(v.t = "string" /\ v.s = <<>>)

\* a ?? b
Coalesce(a, b) == IF IsNullish(a) THEN b ELSE a

getFallbackValue(s, key) ==
  IF type = "object" /\ Truthy(fallbackValue)
    THEN Coalesce(ReadProp(s.heap, fallbackValue, key), fallbackValue)
    ELSE fallbackValue

\* The walk of getNestedFallbackValue from segment i on: the value reached and
\* whether the loop ran to its end.
RECURSIVE FallbackWalk(_, _, _, _)
FallbackWalk(h, value, segs, i) ==
  IF i > Len(segs) THEN [done |-> TRUE, value |-> value]
  ELSE IF IsNullish(value) THEN [done |-> FALSE, value |-> UNDEF]
  ELSE FallbackWalk(h, ReadProp(h, value, segs[i]), segs, i + 1)

getNestedFallbackValue(s, path) ==
  LET pathString == pathToString(path) IN
  IF pathString \in DOMAIN s.cache THEN [s EXCEPT !.ret = s.cache[pathString]]
  ELSE IF type # "object" \/ ~Truthy(fallbackValue) THEN [s EXCEPT !.ret = UNDEF]
  ELSE LET w == FallbackWalk(s.heap, fallbackValue, path.segs, 2) IN
       IF ~w.done THEN [s EXCEPT !.ret = UNDEF]
       ELSE [s EXCEPT !.ret = w.value,
                      !.cache = [x \in DOMAIN @ \cup {pathString} |->
                                   IF x = pathString THEN w.value ELSE @[x]]]

\* The walk of getScoped from segment i on.
RECURSIVE ScopedWalk(_, _, _, _)
ScopedWalk(h, value, segs, i) ==
  IF i > Len(segs) THEN [done |-> TRUE, value |-> value]
  ELSE IF IsNullish(value) THEN [done |-> FALSE, value |-> UNDEF]
  ELSE ScopedWalk(h, ReadProp(h, value, segs[i]), segs, i + 1)

getScoped(s, path) ==
  LET value == MapGet(s.map, path.segs[1]) IN
  IF value = UNDEF THEN getNestedFallbackValue(s, path)
  ELSE LET w == ScopedWalk(s.heap, value, path.segs, 2) IN
       IF w.done /\ w.value # UNDEF THEN [s EXCEPT !.ret = w.value]
       ELSE getNestedFallbackValue(s, path)

get(s, key) ==
  IF ~key.bare THEN getScoped(s, key)
  ELSE [s EXCEPT !.ret = Coalesce(MapGet(s.map, key.segs[1]),
                                  getFallbackValue(s, key.segs[1]))]

getSize(s) == Cardinality(DOMAIN s.map)

getKeys(s) == DOMAIN s.map

----------------------------------------------------------------------------
(* Actions of the store *)

\* The loop and the final assignment of the nested branch of set, from
\* segment i on.
RECURSIVE setNested(_, _, _, _, _)
setNested(s, current, pathArray, i, item) ==
  IF i = Len(pathArray) THEN
    (IF IsNullish(current) THEN Throw(s) ELSE AssignProp(s, current, pathArray[i], item))
  ELSE IF IsNullish(current) THEN Throw(s)
  ELSE LET made == Alloc(s, "object", EmptyFn)
           filled == IF ReadProp(s.heap, current, pathArray[i]) = UNDEF
                       THEN AssignProp(made, current, pathArray[i], made.new)
                       ELSE s
       IN IF filled.threw THEN filled
          ELSE setNested(filled, ReadProp(filled.heap, current, pathArray[i]),
                         pathArray, i + 1, item)

set(s, path, item, notify) ==
  LET pathArray == path.segs
      topLevelKey == pathArray[1]
      existingData == MapGet(s.map, topLevelKey)
      written == IF Len(pathArray) = 1
                   THEN [s EXCEPT !.map = MapSet(@, topLevelKey, item)]
                   ELSE setNested(s, existingData, pathArray, 2, item)
      told == sendToDevtools(written, "SET", FALSE)
      synced == syncItem(told, path)
  IN IF Len(pathArray) > 1 /\ existingData = UNDEF THEN s
     ELSE IF written.threw THEN written
     ELSE IF ~notify THEN told
     ELSE IF Len(pathArray) = 1 THEN syncKeys(syncSize(synced))
     ELSE synced

\* setMap that keeps the path registry when it notifies.
setMap_KeepsRegistry(s, newMap, notify, skipSnapshot) ==
  LET told == sendToDevtools([s EXCEPT !.map = newMap], "SET_MAP", skipSnapshot)
      cleared == [told EXCEPT !.sizeSubscribers = {}, !.keysSubscribers = {}]
  IN IF notify THEN syncKeys(syncSize(syncMap(cleared))) ELSE told

setMap(s, newMap, notify, skipSnapshot) ==
  LET told == sendToDevtools([s EXCEPT !.map = newMap], "SET_MAP", skipSnapshot)
      cleared == [told EXCEPT !.itemSubscribers = EmptyFn,
                              !.itemSubscriberPaths = {},
                              !.sizeSubscribers = {},
                              !.keysSubscribers = {}]
  IN IF notify THEN syncKeys(syncSize(syncMap(cleared))) ELSE told

\* typeof item === 'object' && item !== null && !Array.isArray(item)
IsPlainObject(h, item) == IsRef(item) /\ h[item.id].kind # "array"

\* String({}) + '1'
ObjectPlusOne ==
  Str(<<"[", "o", "b", "j", "e", "c", "t", " ", "O", "b", "j", "e", "c", "t", "]", "1">>)

\* item(prev) for the updater n => n + 1, prev not a string, an array or a
\* function.
ApplyFn(item, prev) ==
  IF prev.t = "number" THEN Num(prev.n + 1)
  ELSE IF prev.t = "null" THEN Num(1)
  ELSE IF IsRef(prev) THEN ObjectPlusOne
  ELSE NaN

\* The top-level branch of update: the state with the entry stored.
updateTop(s, topLevelKey, data, item) ==
  LET merged == Alloc(s, "object", Merge(OwnProps(s.heap, data), OwnProps(s.heap, item)))
  IN IF item.t = "function"
       THEN [s EXCEPT !.map = MapSet(@, topLevelKey, ApplyFn(item, data))]
     ELSE IF IsPlainObject(s.heap, item)
       THEN [merged EXCEPT !.map = MapSet(@, topLevelKey, merged.new)]
     ELSE [s EXCEPT !.map = MapSet(@, topLevelKey, item)]

\* The loop of the nested branch of update from segment i on: the value of
\* `current` after it, or undefined when the loop returned early.
RECURSIVE updateWalk(_, _, _, _)
updateWalk(h, current, pathArray, i) ==
  IF i >= Len(pathArray) THEN current
  ELSE LET next == ReadProp(h, current, pathArray[i]) IN
       IF IsNullish(next) THEN UNDEF ELSE updateWalk(h, next, pathArray, i + 1)

\* The nested branch of update: [s, done], done = FALSE when it returned early.
updateNested(s, pathArray, data, item) ==
  LET cloned == Alloc(s, "object", OwnProps(s.heap, data))
      updatedItem == cloned.new
      current == updateWalk(cloned.heap, updatedItem, pathArray, 2)
      lastKey == pathArray[Len(pathArray)]
      old == ReadProp(cloned.heap, current, lastKey)
      merged == Alloc(cloned, "object",
                      Merge(OwnProps(cloned.heap, old), OwnProps(cloned.heap, item)))
      assigned ==
        IF item.t = "function"
          THEN AssignProp(cloned, current, lastKey, ApplyFn(item, old))
        ELSE IF IsPlainObject(cloned.heap, item)
          THEN AssignProp(merged, current, lastKey, merged.new)
        ELSE AssignProp(cloned, current, lastKey, item)
  IN IF current = UNDEF THEN [s |-> cloned, done |-> FALSE]
     ELSE IF assigned.threw THEN [s |-> assigned, done |-> FALSE]
     ELSE [s |-> [assigned EXCEPT !.map = MapSet(@, pathArray[1], updatedItem)],
           done |-> TRUE]

\* update that notifies the path's subscribers when it returns early.
update_NotifiesOnAbort(s, path, item, notify, skipSnapshot) ==
  LET pathArray == path.segs
      topLevelKey == pathArray[1]
      data == s.map[topLevelKey]
      r == IF Len(pathArray) = 1
             THEN [s |-> updateTop(s, topLevelKey, data, item), done |-> TRUE]
             ELSE updateNested(s, pathArray, data, item)
      told == sendToDevtools(r.s, "UPDATE", skipSnapshot)
  IN IF topLevelKey \notin DOMAIN s.map THEN syncItem(s, path)
     ELSE IF ~r.done THEN syncItem(r.s, path)
     ELSE IF notify THEN syncItem(told, path) ELSE told

update(s, path, item, notify, skipSnapshot) ==
  LET pathArray == path.segs
      topLevelKey == pathArray[1]
      data == s.map[topLevelKey]
      r == IF Len(pathArray) = 1
             THEN [s |-> updateTop(s, topLevelKey, data, item), done |-> TRUE]
             ELSE updateNested(s, pathArray, data, item)
      told == sendToDevtools(r.s, "UPDATE", skipSnapshot)
  IN IF topLevelKey \notin DOMAIN s.map THEN s
     ELSE IF ~r.done THEN r.s
     ELSE IF notify THEN syncItem(told, path) ELSE told

\* The loop of batchUpdate over the keys of `updates` that are left.
RECURSIVE batchLoop(_, _, _)
batchLoop(s, updates, keys) ==
  IF keys = <<>> \/ s.threw THEN s
  ELSE batchLoop(
         IF updates[Head(keys)] # UNDEF
           THEN update(s, Key(Head(keys)), updates[Head(keys)], FALSE, FALSE)
           ELSE s,
         updates, Tail(keys))

\* batchUpdate that notifies before it stores the entries.
batchUpdate_NotifiesFirst(s, updates, notify, skipSnapshot) ==
  LET updatedKeys == {key \in DOMAIN updates : updates[key] # UNDEF}
      synced == IF notify THEN syncItems(s, {Key(key) : key \in updatedKeys}) ELSE s
      looped == batchLoop(synced, updates, SetToSeq(DOMAIN updates))
  IN IF looped.threw THEN looped
     ELSE sendToDevtools(looped, "BATCH_UPDATE", skipSnapshot)

batchUpdate(s, updates, notify, skipSnapshot) ==
  LET updatedKeys == {key \in DOMAIN updates : updates[key] # UNDEF}
      looped == batchLoop(s, updates, SetToSeq(DOMAIN updates))
      told == sendToDevtools(looped, "BATCH_UPDATE", skipSnapshot)
  IN IF looped.threw THEN looped
     ELSE IF notify THEN syncItems(told, {Key(key) : key \in updatedKeys})
     ELSE told

remove(s, key, notify, skipSnapshot) ==
  LET told == sendToDevtools([s EXCEPT !.map = MapDelete(@, key)], "REMOVE", skipSnapshot)
  IN IF notify THEN syncKeys(syncSize(syncItem(told, Key(key)))) ELSE told

----------------------------------------------------------------------------
(* Serialized state *)

\* array.length
ArrayLength(f) ==
  IF \E p \in DOMAIN f : IndexOf(p) >= 0
    THEN 1 + Max({IndexOf(p) : p \in DOMAIN f})
    ELSE 0

\* What JSON.stringify writes for a value, as the tree JSON.parse reads back;
\* undefined where it writes nothing.
RECURSIVE JSONstringify(_)
JSONstringify(tree) ==
  IF tree.t \in {"undefined", "function"} THEN UNDEF
  ELSE IF tree.t = "NaN" THEN NULL
  ELSE IF tree.t # "tree" THEN tree
  ELSE IF tree.kind = "array" THEN
    Arr([p \in {IndexKey(i) : i \in 0 .. ArrayLength(tree.f) - 1} |->
           IF p \in DOMAIN tree.f /\ JSONstringify(tree.f[p]) # UNDEF
             THEN JSONstringify(tree.f[p]) ELSE NULL])
  ELSE Obj([p \in {q \in DOMAIN tree.f : JSONstringify(tree.f[q]) # UNDEF} |->
              JSONstringify(tree.f[p])])

\* The text of a message's state field: absent, '', text JSON.parse rejects,
\* or the JSON text of a tree.
NoText == [k |-> "none"]
EmptyText == [k |-> "empty"]
Garbage == [k |-> "garbage"]
Json(doc) == [k |-> "json", doc |-> doc]

\* The serialized form of the store's state, a plain key -> value mapping.
SerializeState(h, m) == Json(JSONstringify(Obj(DeepMap(h, m))))

\* JSON.parse of a well-formed text: the value, built of new objects.
JSONparse(s, text) == Build(s, text.doc)

----------------------------------------------------------------------------
(* DevTools, inbound *)

\* setMapFromObject that copies no entry into the new map.
setMapFromObject_IgnoresEntries(s, obj, notify) ==
  IF IsNullish(obj) THEN Throw(s)
  ELSE setMap(s, EmptyFn, notify, TRUE)

setMapFromObject(s, obj, notify) ==
  IF IsNullish(obj) THEN Throw(s)
  ELSE setMap(s, OwnProps(s.heap, obj), notify, TRUE)

handleDevToolsMessage(s, message) ==
  LET parsed == JSONparse(s, message.state)
      replaced == setMapFromObject(parsed, parsed.new, FALSE)
  IN IF message.type # "DISPATCH" THEN s
     ELSE IF message.payload = "RESET" THEN setMap(s, initialState, TRUE, TRUE)
     ELSE IF message.payload = "COMMIT"
       THEN [s EXCEPT !.sent = Append(@, [type |-> "@@INIT", state |-> s.map])]
     ELSE IF message.payload \in {"ROLLBACK", "JUMP_TO_STATE", "JUMP_TO_ACTION"} THEN
       (IF message.state.k \in {"none", "empty"} THEN s
        ELSE IF message.state.k = "garbage" THEN s
        ELSE IF replaced.threw THEN [parsed EXCEPT !.threw = FALSE]
        ELSE syncMap(replaced))
     ELSE s

----------------------------------------------------------------------------
(* Steps of the program: one call of a public operation each *)

RefsIn(f) == {f[p].id : p \in {q \in DOMAIN f : IsRef(f[q])}}

RECURSIVE Reach(_, _)
Reach(h, ids) ==
  LET more == ids \cup UNION {RefsIn(h[i].f) : i \in ids} IN
  IF more = ids THEN ids ELSE Reach(h, more)

\* The objects something still refers to after an operation left r and o.
Live(r, o) ==
  Reach(r.heap,
        RefsIn(r.map) \cup RefsIn(initialState) \cup RefsIn(r.cache)
          \cup RefsIn(<<fallbackValue, r.ret, r.held>>)
          \cup (IF "item" \in DOMAIN o THEN RefsIn(<<o.item>>) ELSE {})
          \cup UNION {RefsIn(r.sent[i].state) : i \in 1 .. Len(r.sent)})

\* No number in the store exceeds MaxNum.
Small(v) == v.t = "number" => v.n <= MaxNum
Bounded(r) ==
  /\ \A k \in DOMAIN r.map : Small(r.map[k])
  /\ \A i \in ObjIds : \A p \in DOMAIN r.heap[i].f : Small(r.heap[i].f[p])

\* A step needs its objects to fit the heap, its numbers to stay within
\* MaxNum and the sink's log within MaxSent.
Fits(r) == ~r.oom /\ Bounded(r) /\ Len(r.sent) <= MaxSent

\* The operation recorded as o ends in r; objects nothing refers to are
\* collected.
Commit(r, o) ==
  /\ heap' = [i \in Cells |-> IF i \in Live(r, o) THEN r.heap[i] ELSE FREE]
  /\ map' = r.map
  /\ nestedFallbackValueCache' = r.cache
  /\ itemSubscribers' = r.itemSubscribers
  /\ itemSubscriberPaths' = r.itemSubscriberPaths
  /\ sizeSubscribers' = r.sizeSubscribers
  /\ keysSubscribers' = r.keysSubscribers
  /\ sent' = r.sent
  /\ fired' = r.fired
  /\ late' = r.late
  /\ seen' = r.seen
  /\ keysHook' = IF "hook" \in DOMAIN o THEN o.hook ELSE keysHook
  /\ threw' = r.threw
  /\ ret' = r.ret
  /\ held' = r.held
  /\ op' = o
  /\ dropped' = IF o.name \in {"setMap", "devtools"}
                  THEN dropped \cup (Registered(St) \ Registered(r))
                  ELSE dropped \ Registered(r)
  /\ UNCHANGED <<initialState, fallbackValue, type, devtools, onCall, construction>>

\* store.get(path)
Get(path) ==
  LET r == get(St, path) IN
  /\ Fits(r)
  /\ Commit(r, [name |-> "get", path |-> path])

\* const kept = store.get(path): the caller keeps what get returned
Hold(path) ==
  LET r == get(St, path) IN
  /\ Fits(r)
  /\ Commit([r EXCEPT !.held = r.ret], [name |-> "hold", path |-> path])

\* store.set(path, item, notify), item written as the literal `tree`
Set(path, tree, notify) ==
  LET b == Build(St, tree)
      r == set(b, path, b.new, notify)
  IN /\ Fits(r)
     /\ Commit(r, [name |-> "set", path |-> path, item |-> b.new, notify |-> notify,
                   present |-> path.segs[1] \in DOMAIN map,
                   wrote |-> Len(path.segs) = 1 \/ MapGet(map, path.segs[1]) # UNDEF])

\* The value an updater passed to update(path, ...) would be applied to is
\* one ApplyFn covers.
UpdaterApplies(path) ==
  LET prev == ScopedWalk(heap, MapGet(map, path.segs[1]), path.segs, 2).value IN
  /\ prev.t \notin {"string", "function"}
  /\ IsRef(prev) => heap[prev.id].kind = "object"

\* store.update(path, item, notify, skipSnapshot)
Update(path, tree, notify, skipSnapshot) ==
  LET b == Build(St, tree)
      r == update(b, path, b.new, notify, skipSnapshot)
  IN /\ tree.t = "function" => UpdaterApplies(path)
     /\ Fits(r)
     /\ Commit(r, [name |-> "update", path |-> path, arg |-> tree, notify |-> notify,
                   skip |-> skipSnapshot, present |-> path.segs[1] \in DOMAIN map])

\* store.batchUpdate(updates, notify, skipSnapshot), updates written as the
\* object literal Obj(trees)
BatchUpdate(trees, notify, skipSnapshot) ==
  LET b == BuildProps(St, trees, SetToSeq(DOMAIN trees), EmptyFn)
      r == batchUpdate(b.s, b.f, notify, skipSnapshot)
  IN /\ Fits(r)
     /\ Commit(r, [name |-> "batchUpdate", updates |-> trees, notify |-> notify,
                   skip |-> skipSnapshot, present |-> DOMAIN trees \cap DOMAIN map])

\* store.remove(key, notify, skipSnapshot)
Remove(key, notify, skipSnapshot) ==
  LET r == remove(St, key, notify, skipSnapshot) IN
  /\ Fits(r)
  /\ Commit(r, [name |-> "remove", key |-> key, notify |-> notify,
                skip |-> skipSnapshot])

\* store.setMap(new Map(entries), notify, skipSnapshot), the entries written
\* as the literals `trees`
SetMap(trees, notify, skipSnapshot) ==
  LET b == BuildProps(St, trees, SetToSeq(DOMAIN trees), EmptyFn)
      r == setMap(b.s, b.f, notify, skipSnapshot)
  IN /\ Fits(r)
     /\ Commit(r, [name |-> "setMap", entries |-> trees, notify |-> notify,
                   skip |-> skipSnapshot, items |-> Registered(St),
                   sizes |-> sizeSubscribers, keys |-> keysSubscribers])

\* The subscribe function that use(path) hands to React, and the function it
\* returns.
Subscribe(path, callback) ==
  LET r == addSubscriber(St, Path(path.segs), callback) IN
  /\ Fits(r)
  /\ Commit(r, [name |-> "subscribe", path |-> path, callback |-> callback,
                had |-> callback \in CallbacksAt(St, pathToString(Path(path.segs)))])

Unsubscribe(path, callback) ==
  LET r == removeSubscriber(St, Path(path.segs), callback) IN
  /\ Fits(r)
  /\ Commit(r, [name |-> "unsubscribe", path |-> path, callback |-> callback,
                had |-> callback \in CallbacksAt(St, pathToString(Path(path.segs)))])

\* The subscribe functions of useSize and useKeys, and the functions they
\* return.
SubscribeSize(callback) ==
  /\ callback \notin sizeSubscribers
  /\ Commit([St EXCEPT !.sizeSubscribers = @ \cup {callback}],
            [name |-> "subscribeSize", callback |-> callback])

UnsubscribeSize(callback) ==
  /\ callback \in sizeSubscribers
  /\ Commit([St EXCEPT !.sizeSubscribers = @ \ {callback}],
            [name |-> "unsubscribeSize", callback |-> callback])

SubscribeKeys(callback) ==
  /\ callback \notin keysSubscribers
  /\ Commit([St EXCEPT !.keysSubscribers = @ \cup {callback}],
            [name |-> "subscribeKeys", callback |-> callback])

UnsubscribeKeys(callback) ==
  /\ callback \in keysSubscribers
  /\ Commit([St EXCEPT !.keysSubscribers = @ \ {callback}],
            [name |-> "unsubscribeKeys", callback |-> callback])

\* The sink delivers a message to the listener the constructor registered.
DevToolsMessage(message) ==
  LET r == handleDevToolsMessage(St, message) IN
  /\ devtools
  /\ Fits(r)
  /\ Commit(r, [name |-> "devtools", type |-> message.type,
                payload |-> message.payload, text |-> message.state,
                echo |-> message.state = SerializeState(heap, map),
                items |-> Registered(St)])

\* store.syncItem(key) and store.syncItems(keys), called by the application
SyncItem(key) ==
  LET r == syncItem(St, key) IN
  /\ Fits(r)
  /\ Commit(r, [name |-> "syncItem", path |-> key])

SyncItems(keys) ==
  LET r == syncItems(St, keys) IN
  /\ Fits(r)
  /\ Commit(r, [name |-> "syncItems", keys |-> keys])

\* Array.from(this.map.keys()): the keys, listed in one fixed order.
MapKeys(m) == SetToSeq(DOMAIN m)

\* currentKeys.join(',')
RECURSIVE JoinKeys(_)
JoinKeys(keys) ==
  IF keys = <<>> THEN <<>>
  ELSE IF Len(keys) = 1 THEN Chars(keys[1])
  ELSE Chars(Head(keys)) \o <<",">> \o JoinKeys(Tail(keys))

\* getSnapshot of useKeys: the refs after the call; it returns keysRef.
useKeysGetSnapshot(hook, m) ==
  LET currentSize == Cardinality(DOMAIN m)
      currentKeys == MapKeys(m)
      currentKeysString == JoinKeys(currentKeys)
  IN IF currentSize # hook.sizeRef /\ currentKeysString # hook.keysStringRef
       THEN [keysRef |-> currentKeys, sizeRef |-> currentSize,
             keysStringRef |-> currentKeysString]
       ELSE hook

\* React reads the key-set snapshot of a component that uses useKeys().
KeysSnapshot ==
  LET hook == useKeysGetSnapshot(keysHook, map) IN
  /\ Fits(St)
  /\ Commit(St, [name |-> "keysSnapshot", hook |-> hook, sizeBefore |-> keysHook.sizeRef])

----------------------------------------------------------------------------
(* Construction *)

Blank ==
  [heap |-> [i \in Cells |-> FREE], map |-> EmptyFn, cache |-> EmptyFn,
   itemSubscribers |-> EmptyFn, itemSubscriberPaths |-> {},
   sizeSubscribers |-> {}, keysSubscribers |-> {},
   sent |-> <<>>, fired |-> [c \in Callbacks |-> 0], late |-> {}, seen |-> {},
   threw |-> FALSE,
   oom |-> FALSE, new |-> UNDEF, ret |-> UNDEF, held |-> UNDEF]

\* new CreateStore({ initialMap: new Map(entries of initialTrees),
\*                    fallbackValue, type, name, devtools }), with `sink`
\* telling whether the DevTools extension is there to connect to.
ConstructWith(initialTrees, fallbackTree, storeType, sink, behaviour) ==
  LET m == BuildProps(Blank, initialTrees, SetToSeq(DOMAIN initialTrees), EmptyFn)
      fb == Build(m.s, fallbackTree)
  IN /\ heap = fb.heap
     /\ map = m.f
     /\ initialState = m.f
     /\ fallbackValue = fb.new
     /\ type = storeType
     /\ nestedFallbackValueCache = EmptyFn
     /\ itemSubscribers = EmptyFn
     /\ itemSubscriberPaths = {}
     /\ sizeSubscribers = {}
     /\ keysSubscribers = {}
     /\ devtools = sink
     /\ sent = IF sink THEN <<[type |-> "@@INIT", state |-> m.f]>> ELSE <<>>
     /\ fired = [c \in Callbacks |-> 0]
     /\ onCall = behaviour
     /\ seen = {}
     /\ keysHook = [keysRef |-> <<>>, sizeRef |-> 0, keysStringRef |-> <<>>]
     /\ late = {}
     /\ threw = FALSE
     /\ ret = UNDEF
     /\ held = UNDEF
     /\ op = [name |-> "new"]
     /\ construction = initialTrees
     /\ dropped = {}

\* The same, with callbacks that do nothing but re-render.
Construct(initialTrees, fallbackTree, storeType, sink) ==
  ConstructWith(initialTrees, fallbackTree, storeType, sink, NoBehaviour)

----------------------------------------------------------------------------
(* Path subscribers and the writes that notify them.  The store holds the  *)
(* keys 'a' and '' (the empty string); 'b' is never a key of it.           *)

\* f subscribes at 'a' and at 'a.b', g at 'a.b' and at 'b'.
NotifySubscriptions ==
  {<<<<"a">>, "f">>, <<<<"a", "b">>, "f">>, <<<<"a", "b">>, "g">>, <<<<"b">>, "g">>}

NotifyWrites ==
  {<<Path(<<"a">>), Obj(EmptyFn)>>,
   <<Path(<<"a", "b">>), Num(1)>>,
   <<Path(<<"a", "c">>), Num(1)>>,
   <<Path(<<"", "b">>), Num(1)>>}

NotifyBatches ==
  {[a |-> Obj(EmptyFn)], [a |-> Obj(EmptyFn), b |-> Obj(EmptyFn)]}

InitNotify ==
  Construct([k \in {"a", ""} |-> Obj(EmptyFn)], UNDEF, "map", FALSE)

NextNotify ==
  \/ \E sub \in NotifySubscriptions : Subscribe(Path(sub[1]), sub[2])
  \/ \E sub \in NotifySubscriptions : Unsubscribe(Path(sub[1]), sub[2])
  \/ \E w \in NotifyWrites : Set(w[1], w[2], TRUE)
  \/ \E trees \in NotifyBatches : BatchUpdate(trees, TRUE, FALSE)

SpecNotify == InitNotify /\ [][NextNotify]_vars

\* The identities of the strict ancestors of a path: its proper prefixes.
AncestorIdentities(segs) == {JoinTo(segs, i) : i \in 1 .. Len(segs) - 1}

\* The callbacks registered at the identity of the path, at a descendant
\* identity or at the identity of a strict ancestor.
Affected(s, path) ==
  UNION {CallbacksAt(s, x) :
           x \in {y \in DOMAIN s.itemSubscribers :
                    \/ y = pathToString(path)
                    \/ startsWith(y, pathToString(path) \o <<".">>)
                    \/ y \in AncestorIdentities(path.segs)}}

\* A set that reached its notification.
NotifyingSet == op.name = "set" /\ op.notify /\ op.wrote /\ ~threw

\* C1: a notifying set(P, v) invokes each callback registered at P's
\* identity, at a descendant identity or at a strict ancestor of P exactly
\* once, and no other path callback.
C1_SetNotifiesAffected ==
  NotifyingSet =>
    \A c \in PathCallbacks : fired[c] = IF c \in Affected(St, op.path) THEN 1 ELSE 0

\* C1 for paths that hold no empty segment: there the delivery is as claimed.
C1_SetNotifiesAffectedNonEmptySegments ==
  (NotifyingSet /\ \A i \in 1 .. Len(op.path.segs) : op.path.segs[i] # "") =>
    \A c \in PathCallbacks : fired[c] = IF c \in Affected(St, op.path) THEN 1 ELSE 0

\* The two cases the claim names: with f at 'a' and g at 'a.b',
\* set(['a','b'], x) invokes both once, set(['a','c'], y) invokes f alone.
C1_Scenario ==
  (/\ NotifyingSet
   /\ DOMAIN itemSubscribers = {<<"a">>, <<"a", ".", "b">>}
   /\ itemSubscribers[<<"a">>] = {"f"}
   /\ itemSubscribers[<<"a", ".", "b">>] = {"g"}) =>
     /\ op.path = Path(<<"a", "b">>) => fired["f"] = 1 /\ fired["g"] = 1
     /\ op.path = Path(<<"a", "c">>) => fired["f"] = 1 /\ fired["g"] = 0

\* C4: batchUpdate creates no key that was absent, and its notification
\* invokes exactly the callbacks registered under the keys that were present
\* (at the key or below it), each once.
C4_BatchNotifiesPresentKeys ==
  (op.name = "batchUpdate" /\ op.notify) =>
    /\ DOMAIN map \cap (DOMAIN op.updates \ op.present) = {}
    /\ \A c \in PathCallbacks :
         fired[c] = IF c \in UNION {MatchingBelow(St, pathToString(Key(k))) : k \in op.present}
                      THEN 1 ELSE 0

----------------------------------------------------------------------------
(* Replacing the whole mapping, with observers on all three channels.      *)

ReplaceSubscriptions == {<<<<"a">>, "f">>, <<<<"a", "b">>, "g">>}

ReplaceMaps == {EmptyFn, [a |-> Obj(EmptyFn)], [b |-> Num(1)]}

ReplaceWrites ==
  {<<Path(<<"a">>), Obj(EmptyFn)>>, <<Path(<<"a", "b">>), Num(1)>>}

InitReplace == Construct([a |-> Obj(EmptyFn)], UNDEF, "map", FALSE)

NextReplace ==
  \/ \E sub \in ReplaceSubscriptions : Subscribe(Path(sub[1]), sub[2])
  \/ \E sub \in ReplaceSubscriptions : Unsubscribe(Path(sub[1]), sub[2])
  \/ SubscribeSize("s")
  \/ UnsubscribeSize("s")
  \/ SubscribeKeys("k")
  \/ UnsubscribeKeys("k")
  \/ \E trees \in ReplaceMaps, notify \in BOOLEAN : SetMap(trees, notify, FALSE)
  \/ \E w \in ReplaceWrites : Set(w[1], w[2], TRUE)

SpecReplace == InitReplace /\ [][NextReplace]_vars

\* C6: a notifying setMap leaves the supplied mapping and an empty path
\* registry, and no callback it unregistered is invoked by it or by any later
\* operation until that callback subscribes again; setMap with notify = false
\* leaves the supplied mapping and all three registries as they were.
C6_ReplaceAllDropsPathSubscribers ==
  [][/\ op'.name = "setMap" => DeepMap(heap', map') = op'.entries
     /\ (op'.name = "setMap" /\ op'.notify) =>
          itemSubscribers' = EmptyFn /\ itemSubscriberPaths' = {}
     /\ (op'.name = "setMap" /\ ~op'.notify) =>
          /\ itemSubscribers' = itemSubscribers
          /\ itemSubscriberPaths' = itemSubscriberPaths
          /\ sizeSubscribers' = sizeSubscribers
          /\ keysSubscribers' = keysSubscribers
     /\ \A c \in dropped' : fired'[c] = 0]_vars

\* A write that notifies a subscriber again while a callback that the replace
\* unregistered has not come back.
C6_Witness ==
  /\ op.name = "set" /\ op.notify /\ ~threw
  /\ dropped # {}
  /\ \E c \in PathCallbacks : fired[c] = 1

\* C7: a notifying setMap invokes every size observer and every key-set
\* observer registered when it is called exactly once.
C7_ReplaceAllFiresSizeAndKeys ==
  (op.name = "setMap" /\ op.notify) =>
    \A c \in op.sizes \cup op.keys : fired[c] = 1

----------------------------------------------------------------------------
(* Writes with set at paths of one to three segments, over every shape the *)
(* values along the path can take.                                         *)

StorePaths ==
  {Key("a"), Path(<<"a">>), Path(<<"a", "b">>), Path(<<"a", "b", "c">>)}

StoreItems == {UNDEF, NULL, Num(1), Obj(EmptyFn)}

InitStore ==
  Construct([a |-> Obj([b |-> Obj([c |-> Num(1)])])], UNDEF, "map", FALSE)

NextStore ==
  \/ \E path \in StorePaths, tree \in StoreItems : Set(path, tree, TRUE)
  \/ Remove("a", TRUE, FALSE)

SpecStore == InitStore /\ [][NextStore]_vars

\* C2: after set(P, V), with P of length 1 or P's top-level key present,
\* set has returned normally and get(P) returns V.
C2_GetAfterSet ==
  (op.name = "set" /\ (Len(op.path.segs) = 1 \/ op.present)) =>
    ~threw /\ get(St, op.path).ret = op.item

\* The part of C2 that the code keeps: when V is neither null nor undefined,
\* the value under the top-level key of a longer path was not undefined, and
\* set returned normally, get(P) returns V.
C2_GetAfterSetOfValue ==
  (/\ op.name = "set"
   /\ op.wrote
   /\ ~IsNullish(op.item)
   /\ ~threw) =>
    get(St, op.path).ret = op.item

\* C12: no store operation throws, whatever lies along the path.
C12_NoOperationThrows ==
  op.name \in {"get", "set", "update", "batchUpdate", "remove"} => ~threw

\* The part of C12 the code keeps: a set throws only when a value it has to
\* write into, below the top-level value, is null or a primitive.
C12_SetThrowsOnlyThroughNonObject ==
  (op.name = "set" /\ threw) =>
    /\ Len(op.path.segs) >= 2
    /\ \E i \in 1 .. Len(op.path.segs) - 1 :
         LET at == ScopedWalk(heap, MapGet(map, op.path.segs[1]),
                              SubSeq(op.path.segs, 1, i), 2).value
         IN at # UNDEF /\ ~IsRef(at)

----------------------------------------------------------------------------
(* Updates at paths of two and three segments while the caller keeps a     *)
(* reference it read earlier.                                              *)

UpdatePaths == {Path(<<"a", "b">>), Path(<<"a", "b", "c">>)}

UpdateItems == {Fn("inc"), Obj([c |-> Num(2)]), Num(1)}

HoldPaths == {Path(<<"a">>), Path(<<"a", "b">>)}

InitUpdate ==
  Construct([a |-> Obj([b |-> Obj([c |-> Num(1)])])], UNDEF, "map", FALSE)

NextUpdate ==
  \/ \E path \in HoldPaths : Hold(path)
  \/ \E path \in UpdatePaths, tree \in UpdateItems : Update(path, tree, TRUE, FALSE)

SpecUpdate == InitUpdate /\ [][NextUpdate]_vars

\* An update at a path of two or more segments whose top-level key exists.
NestedUpdateStep == op'.name = "update" /\ Len(op'.path.segs) >= 2 /\ op'.present

\* C3: update at a path of length >= 2 leaves every object the caller read
\* before the call as it was: what the kept reference reads, at every depth,
\* is the same after the update as before it.
C3_UpdateCopyOnWrite ==
  [][(NestedUpdateStep /\ IsRef(held)) =>
       DeepRead(heap', held) = DeepRead(heap, held)]_vars

\* C3 for paths of exactly two segments, where the write goes to the clone.
C3_UpdateCopyOnWriteLength2 ==
  [][(NestedUpdateStep /\ Len(op'.path.segs) = 2 /\ IsRef(held)) =>
       DeepRead(heap', held) = DeepRead(heap, held)]_vars

----------------------------------------------------------------------------
(* The store of the fallback scenario: type 'object', the initial state    *)
(* {user: {name: 'John', roles: []}} and the fallback value                *)
(* {user: {name: 'Anon', roles: ['guest']}}.                               *)

John == Str(<<"J", "o", "h", "n">>)
Anon == Str(<<"A", "n", "o", "n">>)
Guest == Str(<<"g", "u", "e", "s", "t">>)
Jane == Str(<<"J", "a", "n", "e">>)

FallbackPaths ==
  {Key("user"), Path(<<"user">>), Path(<<"user", "name">>),
   Path(<<"user", "roles">>), Path(<<"user", "roles", "0">>)}

InitFallback ==
  Construct([user |-> Obj([name |-> John, roles |-> Arr(EmptyFn)])],
            Obj([user |-> Obj([name |-> Anon, roles |-> Arr("0" :> Guest)])]),
            "object", FALSE)

NextFallback ==
  \/ \E path \in FallbackPaths : Get(path)
  \/ \E item \in {John, Jane} : Set(Path(<<"user", "name">>), item, TRUE)
  \/ \E notify \in BOOLEAN : Remove("user", notify, FALSE)

SpecFallback == InitFallback /\ [][NextFallback]_vars

\* The live value at a path, undefined when a segment is missing.
LiveAt(path) == ScopedWalk(heap, MapGet(map, path.segs[1]), path.segs, 2).value

\* The value the fallback tree holds at a path, top-level key included.
FallbackAt(path) == FallbackWalk(heap, fallbackValue, path.segs, 1).value

\* C5: in 'object' mode get returns the live value of a path when there is
\* one and otherwise the value the fallback tree holds at that exact path.
C5_GetFallsBackAtPath ==
  op.name = "get" =>
    ret = IF LiveAt(op.path) # UNDEF THEN LiveAt(op.path) ELSE FallbackAt(op.path)

\* C5, the scenario as the claim spells it out.
C5_Scenario ==
  /\ (op.name = "get" /\ op.path = Path(<<"user", "name">>)) =>
       ret = IF "user" \in DOMAIN map THEN LiveAt(op.path) ELSE Anon
  /\ (op.name = "get" /\ op.path = Path(<<"user", "roles">>)) =>
       DeepRead(heap, ret) =
         IF "user" \in DOMAIN map THEN Arr(EmptyFn) ELSE Arr("0" :> Guest)

\* C19: a bare key and the one-element path holding it read the same value,
\* whether the key is present or absent.
C19_BareKeyReadsAsPath ==
  get(St, Key("user")).ret = get(St, Path(<<"user">>)).ret

\* The part of C19 the code keeps: they read the same value while the key
\* holds a value that is neither undefined nor null.
C19_BareKeyReadsAsPathWhenPresent ==
  ~IsNullish(MapGet(map, "user")) =>
    get(St, Key("user")).ret = get(St, Path(<<"user">>)).ret

\* The half of C5 the code keeps: a live value is returned as it is.
C5_GetReturnsLiveValue ==
  (op.name = "get" /\ LiveAt(op.path) # UNDEF) => ret = LiveAt(op.path)

----------------------------------------------------------------------------
(* The store the DevTools sink is connected to: {a: {b: 1}}, type 'map'.   *)

Jumps == {"ROLLBACK", "JUMP_TO_STATE", "JUMP_TO_ACTION"}

Dispatch(payload, text) ==
  [type |-> "DISPATCH", payload |-> payload, state |-> text]

\* State texts that are not the serialized form of a key -> value mapping.
MirrorTexts ==
  {Garbage, Json(NULL), Json(Num(1)), Json(Str(<<"x">>)), Json(Arr("0" :> Num(1)))}

MirrorWrites ==
  {<<Path(<<"a", "b">>), Num(2)>>, <<Key("c"), UNDEF>>, <<Key("c"), Num(1)>>}

InitMirror == Construct([a |-> Obj([b |-> Num(1)])], UNDEF, "map", TRUE)

NextMirror ==
  \/ \E w \in MirrorWrites : Set(w[1], w[2], TRUE)
  \/ \E payload \in Jumps :
       DevToolsMessage(Dispatch(payload, SerializeState(heap, map)))
  \/ \E text \in MirrorTexts \cup {NoText, EmptyText} :
       DevToolsMessage(Dispatch("JUMP_TO_STATE", text))
  \/ \E payload \in {"RESET", "COMMIT"} : DevToolsMessage(Dispatch(payload, NoText))
  \/ DevToolsMessage([type |-> "ACTION", payload |-> "RESET", state |-> NoText])

SpecMirror == InitMirror /\ [][NextMirror]_vars

\* A value JSON text carries without loss: no undefined, function or NaN in
\* it, and arrays without holes.
RECURSIVE Plain(_)
Plain(tree) ==
  IF tree.t \in {"undefined", "function", "NaN"} THEN FALSE
  ELSE IF tree.t # "tree" THEN TRUE
  ELSE /\ \A p \in DOMAIN tree.f : Plain(tree.f[p])
       /\ tree.kind = "array" =>
            DOMAIN tree.f = {IndexKey(i) : i \in 0 .. ArrayLength(tree.f) - 1}

\* A step in which the sink hands the store's own serialized state back.
EchoStep == /\ op'.name = "devtools" /\ op'.type = "DISPATCH"
            /\ op'.payload \in Jumps /\ op'.echo

\* C8 as stated: from every reachable state, the serialized state delivered
\* back by ROLLBACK, JUMP_TO_STATE or JUMP_TO_ACTION leaves the same keys and
\* the same value under each key.
C8_RoundTrip == [][EchoStep => DeepMap(heap', map') = DeepMap(heap, map)]_vars

\* C8, amended: the round trip restores every state whose values JSON text
\* carries without loss (no undefined, function or NaN, no array holes).
C8_RoundTripOfPlainState ==
  [][(EchoStep /\ Plain(Obj(DeepMap(heap, map)))) =>
       (DeepMap(heap', map') = DeepMap(heap, map) /\ ~threw')]_vars

C8_Witness ==
  /\ op.name = "devtools" /\ op.payload \in Jumps /\ op.echo
  /\ DeepMap(heap, map) = [a |-> Obj([b |-> Num(2)]), c |-> Num(1)]

\* A state text that is not valid serialized state: it fails to parse, or it
\* parses to something other than a key -> value mapping.
Invalid(text) ==
  \/ text.k = "garbage"
  \/ text.k = "json" /\ ~(text.doc.t = "tree" /\ text.doc.kind = "object")

InvalidStep == /\ op'.name = "devtools" /\ op'.type = "DISPATCH"
               /\ op'.payload \in Jumps /\ Invalid(op'.text)

\* C9: a ROLLBACK, JUMP_TO_STATE or JUMP_TO_ACTION command with an invalid
\* state payload does not throw and leaves the store's mapping unchanged.
C9_InvalidPayloadRejected ==
  [][InvalidStep => (~threw' /\ map' = map /\ DeepMap(heap', map') = DeepMap(heap, map))]_vars

\* The part of C9 the code keeps: text that fails to parse, and the text
\* 'null', leave the mapping unchanged, and no invalid payload throws.
C9_UnparsableOrNullRejected ==
  [][InvalidStep =>
       /\ ~threw'
       /\ (op'.text.k = "garbage" \/ op'.text.doc = NULL) =>
            (map' = map /\ DeepMap(heap', map') = DeepMap(heap, map))]_vars

\* C10: after RESET the store has the keys and the nested values it was
\* constructed with.
C10_ResetRestoresConstruction ==
  (op.name = "devtools" /\ op.type = "DISPATCH" /\ op.payload = "RESET") =>
    DeepMap(heap, map) = construction

\* The part of C10 the code keeps: RESET restores the top-level keys and the
\* top-level values by identity.
C10_ResetRestoresTopLevel ==
  (op.name = "devtools" /\ op.type = "DISPATCH" /\ op.payload = "RESET") =>
    map = initialState

----------------------------------------------------------------------------
(* Writes that find nothing to write to: the store {a: {b: 1}} with the    *)
(* sink connected and subscribers at 'a' and 'z', size and keys observers. *)

NoopSubscriptions == {<<Path(<<"a">>), "f">>, <<Path(<<"z">>), "g">>}

NoopSets == {Path(<<"z", "b">>), Path(<<"z", "b", "c">>), Path(<<"a", "b">>)}

NoopUpdates ==
  {Key("z"), Path(<<"z", "b">>), Path(<<"a", "x", "y">>), Path(<<"a", "b">>)}

NoopItems == {Num(2), Obj([c |-> Num(1)]), Fn("inc")}

InitNoop == Construct([a |-> Obj([b |-> Num(1)])], UNDEF, "map", TRUE)

NextNoop ==
  \/ \E sub \in NoopSubscriptions : Subscribe(sub[1], sub[2])
  \/ SubscribeSize("s")
  \/ SubscribeKeys("k")
  \/ \E path \in NoopSets : Set(path, Num(2), TRUE)
  \/ \E path \in NoopUpdates, tree \in NoopItems : Update(path, tree, TRUE, FALSE)

SpecNoop == InitNoop /\ [][NextNoop]_vars

\* Some segment before the last of the path is missing in the current state.
MissingIntermediate(path) ==
  \E i \in 2 .. Len(path.segs) - 1 :
    ScopedWalk(heap, MapGet(map, path.segs[1]), SubSeq(path.segs, 1, i), 2).value = UNDEF

\* A set of a nested path, or an update, that finds its top-level key absent,
\* or an update that finds an intermediate segment missing.
NoopWriteStep ==
  \/ /\ op'.name = "set" /\ Len(op'.path.segs) >= 2
     /\ op'.path.segs[1] \notin DOMAIN map
  \/ /\ op'.name = "update"
     /\ op'.path.segs[1] \notin DOMAIN map \/ MissingIntermediate(op'.path)

\* C11: a write that targets a missing top-level key (or, for update, a
\* missing intermediate segment) leaves the mapping unchanged, sends nothing
\* to the sink and invokes no callback.
C11_MissingTargetIsNoop ==
  [][NoopWriteStep =>
       /\ map' = map
       /\ DeepMap(heap', map') = DeepMap(heap, map)
       /\ sent' = <<>>
       /\ \A c \in Callbacks : fired'[c] = 0
       /\ ~threw']_vars

C11_Witness ==
  /\ op.name = "update" /\ op.path = Path(<<"a", "x", "y">>)
  /\ map = initialState
  /\ "f" \in Registered(St) /\ sizeSubscribers # {} /\ devtools

----------------------------------------------------------------------------
(* The path registry: two callbacks, the identities 'a' and 'a.b', paths   *)
(* given as a bare key and as arrays.                                      *)

RegistryPaths == {Key("a"), Path(<<"a">>), Path(<<"a", "b">>)}

RegistryWrites ==
  {<<Key("a"), Obj(EmptyFn)>>, <<Path(<<"a", "b">>), Num(1)>>}

InitRegistry == Construct([a |-> Obj(EmptyFn)], UNDEF, "map", FALSE)

NextRegistry ==
  \/ \E path \in RegistryPaths, callback \in PathCallbacks : Subscribe(path, callback)
  \/ \E path \in RegistryPaths, callback \in PathCallbacks : Unsubscribe(path, callback)
  \/ \E notify \in BOOLEAN : SetMap([a |-> Obj(EmptyFn)], notify, FALSE)
  \/ \E w \in RegistryWrites : Set(w[1], w[2], TRUE)

SpecRegistry == InitRegistry /\ [][NextRegistry]_vars

\* C13: no identity of the path registry maps to an empty callback set, and
\* itemSubscriberPaths is exactly the key set of itemSubscribers.
C13_RegistryInvariant ==
  /\ \A x \in DOMAIN itemSubscribers : itemSubscribers[x] # {}
  /\ itemSubscriberPaths = DOMAIN itemSubscribers

\* The last callback of 'a' was unsubscribed while 'a.b' stays subscribed.
C13_Witness ==
  /\ op.name = "unsubscribe" /\ op.had
  /\ pathToString(Path(op.path.segs)) = <<"a">>
  /\ DOMAIN itemSubscribers = {<<"a", ".", "b">>}
  /\ itemSubscriberPaths = {<<"a", ".", "b">>}

\* C18: registering a callback again under an identity it is registered at
\* leaves the registry as it was, and a notifying write invokes each callback
\* registered at its identity exactly once.
C18_SubscribeIdempotent ==
  [][/\ (op'.name = "subscribe" /\ op'.had) =>
          /\ itemSubscribers' = itemSubscribers
          /\ itemSubscriberPaths' = itemSubscriberPaths
     /\ (op'.name = "set" /\ op'.notify /\ op'.wrote /\ ~threw') =>
          \A c \in CallbacksAt(St, pathToString(op'.path)) : fired'[c] = 1]_vars

\* A callback registered at 'a' by a bare key is registered again by the
\* one-element array, next to another callback.
C18_Witness ==
  /\ op.name = "subscribe" /\ op.had /\ ~op.path.bare
  /\ itemSubscribers = (<<"a">> :> {"f", "g"})

----------------------------------------------------------------------------
(* Callbacks that unsubscribe others while a batch is delivered: f, when   *)
(* invoked, unsubscribes g from 'a'; s, when invoked, takes k out of the   *)
(* size and the key-set observers.  f registers before g and s before k.   *)

DeliveryBehaviour ==
  [c \in Callbacks |->
     CASE c = "f" -> {UnsubscribeAt(Path(<<"a">>), "g")}
       [] c = "s" -> {UnsubscribeFrom("sizeSubscribers", "k"),
                      UnsubscribeFrom("keysSubscribers", "k")}
       [] OTHER -> {}]

DeliveryWrites == {<<Key("a"), Num(1)>>, <<Path(<<"a", "b">>), Num(1)>>,
                   <<Key("a"), Obj(EmptyFn)>>}

InitDelivery ==
  ConstructWith([a |-> Obj(EmptyFn)], UNDEF, "map", FALSE, DeliveryBehaviour)

NextDelivery ==
  \/ "g" \notin CallbacksAt(St, <<"a">>) /\ Subscribe(Path(<<"a">>), "f")
  \/ Subscribe(Path(<<"a">>), "g")
  \/ "k" \notin sizeSubscribers /\ SubscribeSize("s")
  \/ SubscribeSize("k")
  \/ "k" \notin keysSubscribers /\ SubscribeKeys("s")
  \/ SubscribeKeys("k")
  \/ \E w \in DeliveryWrites : Set(w[1], w[2], TRUE)

SpecDelivery == InitDelivery /\ [][NextDelivery]_vars

\* C14: no operation invokes a callback that an earlier callback of the same
\* batch has unsubscribed, whether a path subscriber, a size observer or a
\* key-set observer.
C14_UnsubscribedNotInvoked == late = {}

\* The part of C14 the code keeps: size and key-set observers removed during
\* their batch are not invoked.
C14_RemovedObserversNotInvoked ==
  [][/\ late' \subseteq PathCallbacks
     /\ (op'.name = "set" /\ Len(op'.path.segs) = 1 /\ ~threw'
           /\ {"s", "k"} \subseteq sizeSubscribers) =>
          (fired'["s"] >= 1 /\ fired'["k"] = 0 /\ "k" \notin sizeSubscribers')]_vars

----------------------------------------------------------------------------
(* What update stores: the store {a: [1], o: {b: 1}}.                      *)

MergePaths ==
  {Key("a"), Key("o"), Path(<<"o", "b">>), Path(<<"a", "0">>)}

MergeItems == {Fn("inc"), Obj([c |-> Num(2)]), Arr("0" :> Num(2)), Num(2)}

InitMerge ==
  Construct([a |-> Arr("0" :> Num(1)), o |-> Obj([b |-> Num(1)])], UNDEF, "map", FALSE)

NextMerge ==
  \E path \in MergePaths, tree \in MergeItems : Update(path, tree, TRUE, FALSE)

SpecMerge == InitMerge /\ [][NextMerge]_vars

\* The value at a path in a heap and mapping, undefined when a segment is
\* missing.
ValueAt(h, m, segs) == ScopedWalk(h, MapGet(m, segs[1]), segs, 2).value

IsObjectTree(tree) == tree.t = "tree" /\ tree.kind = "object"
IsArrayTree(tree) == tree.t = "tree" /\ tree.kind = "array"
\* The fields of a value as a shallow merge sees them, read deeply.
FieldsOf(current) ==
  [p \in DOMAIN OwnProps(heap, current) |-> DeepRead(heap, OwnProps(heap, current)[p])]

\* An update of a location that exists, which returned normally.
UpdateOfExisting ==
  /\ op'.name = "update" /\ ~threw'
  /\ ValueAt(heap, map, op'.path.segs) # UNDEF

\* What the update is to store, by the kind of its argument and of the
\* current value.
UpdateStores(current, arg) ==
  IF arg.t = "function" THEN ApplyFn(arg, current)
  ELSE IF IsObjectTree(arg) /\ ~IsArrayTree(DeepRead(heap, current))
    THEN Obj(Merge(FieldsOf(current), arg.f))
  ELSE arg

\* The kinds of the containers above the last segment of a path.
KindsAbove(h, m, segs) ==
  [i \in 1 .. Len(segs) - 1 |->
     LET v == ValueAt(h, m, SubSeq(segs, 1, i)) IN
     IF IsRef(v) THEN h[v.id].kind ELSE "none"]

\* C15: update stores arg(current) for a function, the shallow merge for a
\* plain object onto a current value that is not an array, and arg itself in
\* every other case; the containers above the path keep their types.
C15_UpdateStores ==
  [][UpdateOfExisting =>
       /\ DeepRead(heap', ValueAt(heap', map', op'.path.segs)) =
            UpdateStores(ValueAt(heap, map, op'.path.segs), op'.arg)
       /\ KindsAbove(heap', map', op'.path.segs) =
            KindsAbove(heap, map, op'.path.segs)]_vars

\* The part of C15 the code keeps: the stored value is as claimed when the
\* argument is a function, an array or a primitive, and when it is a plain
\* object and the current value is not an array.
C15_UpdateStoresExceptOntoArrays ==
  [][(UpdateOfExisting
        /\ ~(IsObjectTree(op'.arg)
               /\ IsArrayTree(DeepRead(heap, ValueAt(heap, map, op'.path.segs))))) =>
       DeepRead(heap', ValueAt(heap', map', op'.path.segs)) =
         UpdateStores(ValueAt(heap, map, op'.path.segs), op'.arg)]_vars

----------------------------------------------------------------------------
(* Commands of the sink that replace the state, with path subscribers:     *)
(* the store {a: {b: 1}}, f subscribed at 'a' and g at 'a.b'.              *)

RenotifySubscriptions == {<<Path(<<"a">>), "f">>, <<Path(<<"a", "b">>), "g">>}

RenotifyTexts == {Json(Obj([a |-> Num(1)])), Json(Obj(EmptyFn))}

InitRenotify == Construct([a |-> Obj([b |-> Num(1)])], UNDEF, "map", TRUE)

NextRenotify ==
  \/ \E sub \in RenotifySubscriptions : Subscribe(sub[1], sub[2])
  \/ Set(Path(<<"a", "b">>), Num(2), TRUE)
  \/ DevToolsMessage(Dispatch("RESET", NoText))
  \/ \E payload \in Jumps, text \in RenotifyTexts \cup {SerializeState(heap, map)} :
       DevToolsMessage(Dispatch(payload, text))

SpecRenotify == InitRenotify /\ [][NextRenotify]_vars

\* The last operation was a command that replaces the state: RESET, or a
\* jump with the serialized form of a key -> value mapping.
ReplacingCommand ==
  /\ op.name = "devtools" /\ op.type = "DISPATCH"
  /\ \/ op.payload = "RESET"
     \/ op.payload \in Jumps /\ op.text.k = "json" /\ IsObjectTree(op.text.doc)

\* C16: a command that replaces the state invokes every path subscriber
\* registered when it arrives.
C16_CommandRenotifiesAll ==
  ReplacingCommand => \A c \in op.items : fired[c] >= 1

\* The part of C16 the code keeps: ROLLBACK, JUMP_TO_STATE and JUMP_TO_ACTION
\* invoke every registered path subscriber once and keep it registered.
C16_JumpRenotifiesAll ==
  (ReplacingCommand /\ op.payload \in Jumps) =>
    /\ \A c \in op.items : fired[c] = 1
    /\ Registered(St) = op.items

----------------------------------------------------------------------------
(* What is pushed to the sink: the store {a: {b: 1}} with the sink         *)
(* connected, mutations with and without skipSnapshot.                     *)

EchoSets == {<<Path(<<"a", "b">>), Num(1)>>, <<Key("z"), Num(2)>>}

EchoUpdates == {<<Key("a"), Obj([c |-> Num(2)])>>, <<Path(<<"a", "b">>), Num(2)>>}

EchoBatches == {[a |-> Obj([c |-> Num(2)])], [a |-> Obj([c |-> Num(2)]), z |-> Num(1)]}

EchoMaps == {[z |-> Num(1)]}

InitEcho == Construct([a |-> Obj([b |-> Num(1)])], UNDEF, "map", TRUE)

NextEcho ==
  \/ \E w \in EchoSets : Set(w[1], w[2], TRUE)
  \/ \E u \in EchoUpdates, skip \in BOOLEAN : Update(u[1], u[2], TRUE, skip)
  \/ \E trees \in EchoBatches, skip \in BOOLEAN : BatchUpdate(trees, TRUE, skip)
  \/ \E skip \in BOOLEAN : Remove("a", TRUE, skip)
  \/ \E trees \in EchoMaps, skip \in BOOLEAN : SetMap(trees, TRUE, skip)
  \/ DevToolsMessage(Dispatch("RESET", NoText))
  \/ DevToolsMessage(Dispatch("JUMP_TO_STATE", Json(Obj([a |-> Num(1)]))))

SpecEcho == InitEcho /\ [][NextEcho]_vars

\* A mutation made with skipSnapshot = true, or while a command of the sink
\* is handled.
SuppressedStep ==
  \/ op'.name \in {"update", "batchUpdate", "remove", "setMap"} /\ op'.skip
  \/ op'.name = "devtools" /\ op'.payload # "COMMIT"

\* A mutation made without suppression that changes the store.
UnsuppressedChange ==
  /\ \/ op'.name = "set"
     \/ op'.name \in {"update", "batchUpdate", "remove", "setMap"} /\ ~op'.skip
  /\ DeepMap(heap', map') # DeepMap(heap, map)

\* C17: a suppressed mutation pushes nothing to the sink; an unsuppressed
\* mutation that changes the store pushes exactly one message, with the
\* snapshot after the mutation.
C17_EchoSuppression ==
  [][/\ SuppressedStep => sent' = <<>>
     /\ UnsuppressedChange => (Len(sent') = 1 /\ sent'[1].state = map')]_vars

\* The part of C17 the code keeps: all of it but for batchUpdate.
C17_EchoSuppressionButForBatches ==
  [][op'.name # "batchUpdate" =>
       /\ SuppressedStep => sent' = <<>>
       /\ UnsuppressedChange => (Len(sent') = 1 /\ sent'[1].state = map')]_vars

----------------------------------------------------------------------------
(* syncItem and syncItems called directly, with subscribers at 'a' and     *)
(* 'a.b'.                                                                  *)

SyncSubscriptions ==
  {<<Path(<<"a">>), "f">>, <<Path(<<"a", "b">>), "g">>, <<Path(<<"a", "b">>), "f">>}

SyncKeys == {Key("a"), Path(<<"a", "b">>), Path(<<"a", "b", "c">>), Key("c")}

InitSync == Construct([a |-> Obj(EmptyFn)], UNDEF, "map", FALSE)

NextSync ==
  \/ \E sub \in SyncSubscriptions : Subscribe(sub[1], sub[2])
  \/ \E sub \in SyncSubscriptions : Unsubscribe(sub[1], sub[2])
  \/ \E key \in SyncKeys : SyncItem(key)
  \/ \E keys \in SUBSET SyncKeys : SyncItems(keys)

SpecSync == InitSync /\ [][NextSync]_vars

\* The callbacks syncItem delivers to for one path.
DeliveredBySyncItem(key) == {c \in PathCallbacks : syncItem(St, key).fired[c] >= 1}

\* C20: syncItems(keys) invokes, once each, exactly the callbacks syncItem
\* delivers to for some path of keys: those at the path, at its descendants
\* and at its strict ancestors.
C20_SyncItemsIsUnionOfSyncItem ==
  op.name = "syncItems" =>
    \A c \in PathCallbacks :
      fired[c] = IF c \in UNION {DeliveredBySyncItem(key) : key \in op.keys}
                   THEN 1 ELSE 0

\* The part of C20 the code keeps: syncItems invokes, once each, exactly the
\* callbacks at the given paths and at their descendants.
C20_SyncItemsDeliversBelow ==
  op.name = "syncItems" =>
    \A c \in PathCallbacks :
      fired[c] = IF c \in UNION {MatchingBelow(St, pathToString(key)) : key \in op.keys}
                   THEN 1 ELSE 0

----------------------------------------------------------------------------
(* The key-set snapshot of one component, read between writes to the keys  *)
(* a, b and c of an initially empty store.                                 *)

KeysOfSnapshots == {"a", "b", "c"}

InitKeys == Construct(EmptyFn, UNDEF, "map", FALSE)

NextKeys ==
  \/ \E key \in KeysOfSnapshots : Set(Key(key), Num(1), TRUE)
  \/ \E key \in KeysOfSnapshots : Remove(key, TRUE, FALSE)
  \/ \E notify \in BOOLEAN : SetMap([c |-> Num(1)], notify, FALSE)
  \/ KeysSnapshot

SpecKeys == InitKeys /\ [][NextKeys]_vars

SnapshotKeys == {keysHook.keysRef[i] : i \in 1 .. Len(keysHook.keysRef)}

\* C21: the key-set snapshot a component reads is the key set the store
\* holds at that moment.
C21_KeysSnapshotCurrent ==
  op.name = "keysSnapshot" => SnapshotKeys = DOMAIN map

\* The part of C21 the code keeps: the snapshot is current when the number
\* of keys differs from the number at the last snapshot taken.
C21_KeysSnapshotCurrentOnSizeChange ==
  (op.name = "keysSnapshot" /\ op.sizeBefore # Cardinality(DOMAIN map)) =>
    SnapshotKeys = DOMAIN map

----------------------------------------------------------------------------
(* What the callbacks of a write find in the store: a store of an object a *)
(* and a number b, observed at a and at b and by a size and a key-set      *)
(* observer.                                                               *)

OrderSubscriptions == {<<<<"a">>, "f">>, <<<<"b">>, "g">>}

OrderWrites ==
  {<<Path(<<"a", "n">>), Num(2)>>, <<Key("b"), Num(1)>>}

OrderUpdates ==
  {<<Path(<<"a", "n">>), Fn("inc")>>, <<Key("a"), Obj([n |-> Num(1)])>>}

OrderBatches == {[a |-> Obj([n |-> Num(2)]), b |-> Fn("inc")]}

InitOrder == Construct([a |-> Obj([n |-> Num(0)]), b |-> Num(0)], UNDEF, "map", FALSE)

NextOrder ==
  \/ \E sub \in OrderSubscriptions : Subscribe(Path(sub[1]), sub[2])
  \/ SubscribeSize("s")
  \/ SubscribeKeys("k")
  \/ \E w \in OrderWrites : Set(w[1], w[2], TRUE)
  \/ \E u \in OrderUpdates : Update(u[1], u[2], TRUE, FALSE)
  \/ \E trees \in OrderBatches : BatchUpdate(trees, TRUE, FALSE)
  \/ \E key \in {"a", "b"} : Remove(key, TRUE, FALSE)

SpecOrder == InitOrder /\ [][NextOrder]_vars

\* C22: every callback that a set, an update, a batchUpdate or a remove
\* invokes finds the store as the call leaves it, with every entry of the
\* call written; so all callbacks of one call find the same state.
C22_WritePrecedesNotification ==
  op.name \in {"set", "update", "batchUpdate", "remove"} =>
    seen \subseteq {DeepMap(heap, map)}

\* A batchUpdate of two stored keys has invoked the subscribers of both.
C22_Witness ==
  /\ op.name = "batchUpdate"
  /\ op.present = {"a", "b"}
  /\ fired["f"] >= 1 /\ fired["g"] >= 1
  /\ seen = {DeepMap(heap, map)}

====
